---- MODULE Spec2Model ----
(***************************************************************************)
(* Model of scripts/compare-results.py: the diagnostic matcher             *)
(* (match_errors with its location/message normalizers and the difflib     *)
(* similarity ratio) and the aggregator compare_results with the loader    *)
(* load_tool_results and the command-line entry point.                     *)
(*                                                                         *)
(* Python values are modelled as follows.                                  *)
(*   dict      a function from the set of keys that are present to values  *)
(*             (the empty dict is the function with the empty domain)      *)
(*   str       [kind |-> "str", chars |-> sequence of one-character        *)
(*             strings]                                                    *)
(*   None      [kind |-> "none"]                                           *)
(*   dict as a value of a key:  [kind |-> "dict", fields |-> dict]         *)
(*   float     a pair <<numerator, denominator>> with denominator > 0,     *)
(*             compared by cross multiplication                            *)
(***************************************************************************)
EXTENDS Integers, Sequences, FiniteSets, TLC

(***************************************************************************)
(* Python values                                                           *)
(***************************************************************************)
EmptyDict == <<>>

Str(s) == [kind |-> "str", chars |-> s]

None == [kind |-> "none"]

Dict(f) == [kind |-> "dict", fields |-> f]

\* dict.get(key, default)
Get(d, key, default) == IF key \in DOMAIN d THEN d[key] ELSE default

\* isinstance(v, dict)
IsDict(v) == v.kind = "dict"

\* truth value of a dict: a dict is true iff it has at least one key
Truthy(d) == DOMAIN d # {}

\* d[key] = value
Put(d, key, value) == [x \in (DOMAIN d) \cup {key} |-> IF x = key THEN value ELSE d[x]]

\* the elements of a list
Range(q) == {q[k] : k \in DOMAIN q}

Injective(q) == \A k1, k2 \in DOMAIN q : q[k1] = q[k2] => k1 = k2

(***************************************************************************)
(* floats, as fractions                                                    *)
(***************************************************************************)
Frac(n, d) == <<n, d>>

FracGt(x, y) == x[1] * y[2] > y[1] * x[2]

FracGe(x, y) == x[1] * y[2] >= y[1] * x[2]

FracEq(x, y) == x[1] * y[2] = y[1] * x[2]

Zero == Frac(0, 1)

One == Frac(1, 1)

(***************************************************************************)
(* normalize_error_message                                                 *)
(***************************************************************************)
Upper == <<"A","B","C","D","E","F","G","H","I","J","K","L","M",
           "N","O","P","Q","R","S","T","U","V","W","X","Y","Z">>

Lower == <<"a","b","c","d","e","f","g","h","i","j","k","l","m",
           "n","o","p","q","r","s","t","u","v","w","x","y","z">>

Digits == {"0","1","2","3","4","5","6","7","8","9"}

Whitespace == {" ", "\t", "\n", "\r"}

\* str.lower() on one character
LowerChar(c) ==
    IF \E i \in DOMAIN Upper : Upper[i] = c
    THEN Lower[CHOOSE i \in DOMAIN Upper : Upper[i] = c]
    ELSE c

\* message.lower()
ToLower(s) == [i \in DOMAIN s |-> LowerChar(s[i])]

\* ' '.join(s.split()): the words of s (maximal runs of non-whitespace)
\* joined by single spaces; leading and trailing whitespace disappears.
RECURSIVE JoinSplit(_, _, _, _)
JoinSplit(s, i, out, inWord) ==
    IF i > Len(s) THEN out
    ELSE IF s[i] \in Whitespace THEN JoinSplit(s, i + 1, out, FALSE)
    ELSE IF inWord \/ out = <<>> THEN JoinSplit(s, i + 1, Append(out, s[i]), TRUE)
    ELSE JoinSplit(s, i + 1, out \o <<" ", s[i]>>, TRUE)

\* the character class [a-zA-Z0-9_\-/]
PathChar(c) ==
    \/ \E i \in DOMAIN Upper : Upper[i] = c
    \/ \E i \in DOMAIN Lower : Lower[i] = c
    \/ c \in Digits
    \/ c \in {"_", "-", "/"}

\* length of the maximal run of PathChar characters of s starting at i
RECURSIVE PathRun(_, _)
PathRun(s, i) ==
    IF i <= Len(s) /\ PathChar(s[i]) THEN 1 + PathRun(s, i + 1) ELSE 0

\* s has the characters of t at position i
HasAt(s, i, t) ==
    /\ i + Len(t) - 1 <= Len(s)
    /\ \A k \in 1..Len(t) : s[i + k - 1] = t[k]

\* length of the match of [a-zA-Z0-9_\-/]+\.ya?ml at position i of s, 0 when
\* there is none. "." is not in the class, so only the whole run of class
\* characters can be followed by it; "yaml" and "yml" exclude each other.
YamlMatchLen(s, i) ==
    LET r == PathRun(s, i)
    IN  IF r = 0 THEN 0
        ELSE IF HasAt(s, i + r, <<".", "y", "a", "m", "l">>) THEN r + 5
        ELSE IF HasAt(s, i + r, <<".", "y", "m", "l">>) THEN r + 4
        ELSE 0

FileToken == <<"<", "f", "i", "l", "e", ">">>

\* re.sub(r'[a-zA-Z0-9_\-/]+\.ya?ml', '<file>', s): leftmost, non-overlapping
RECURSIVE SubYaml(_, _)
SubYaml(s, i) ==
    IF i > Len(s) THEN <<>>
    ELSE LET m == YamlMatchLen(s, i)
         IN  IF m > 0 THEN FileToken \o SubYaml(s, i + m)
             ELSE <<s[i]>> \o SubYaml(s, i + 1)

normalize_error_message(message) ==
    SubYaml(JoinSplit(ToLower(message), 1, <<>>, FALSE), 1)

(***************************************************************************)
(* similarity_score: difflib.SequenceMatcher(None, msg1, msg2).ratio()     *)
(* (no junk; the autojunk heuristic only acts on strings of 200 or more    *)
(* characters, longer than any message of this model)                      *)
(***************************************************************************)
\* length of the common run a[i+1..], b[j+1..] inside a[..ahi], b[..bhi]
RECURSIVE RunLen(_, _, _, _, _, _)
RunLen(a, b, i, j, ahi, bhi) ==
    IF i < ahi /\ j < bhi /\ a[i + 1] = b[j + 1]
    THEN 1 + RunLen(a, b, i + 1, j + 1, ahi, bhi)
    ELSE 0

\* find_longest_match(alo, ahi, blo, bhi): <<i, j, k>> with a[i:i+k] = b[j:j+k],
\* k maximal, then i minimal, then j minimal (0-based, half-open ranges)
find_longest_match(a, b, alo, ahi, blo, bhi) ==
    LET C == {<<i, j, RunLen(a, b, i, j, ahi, bhi)>> : i \in alo..(ahi - 1), j \in blo..(bhi - 1)}
        P == {c \in C : c[3] > 0}
    IN  IF P = {} THEN <<alo, blo, 0>>
        ELSE CHOOSE c \in P :
               \A d \in P :
                  \/ c[3] > d[3]
                  \/ c[3] = d[3] /\ c[1] < d[1]
                  \/ c[3] = d[3] /\ c[1] = d[1] /\ c[2] <= d[2]

\* total size of get_matching_blocks(): the longest match m = <<i, j, k>>,
\* then the pieces to its left and to its right, recursively
RECURSIVE matching_size(_, _, _, _, _, _)
RECURSIVE BlocksAround(_, _, _, _, _, _, _)
BlocksAround(a, b, alo, ahi, blo, bhi, m) ==
    IF m[3] = 0 THEN 0
    ELSE m[3]
         + (IF alo < m[1] /\ blo < m[2]
            THEN matching_size(a, b, alo, m[1], blo, m[2]) ELSE 0)
         + (IF m[1] + m[3] < ahi /\ m[2] + m[3] < bhi
            THEN matching_size(a, b, m[1] + m[3], ahi, m[2] + m[3], bhi) ELSE 0)

matching_size(a, b, alo, ahi, blo, bhi) ==
    BlocksAround(a, b, alo, ahi, blo, bhi, find_longest_match(a, b, alo, ahi, blo, bhi))

\* ratio(): 2.0 * matches / (len(a) + len(b)), and 1.0 when both are empty
similarity_score(msg1, msg2) ==
    LET length == Len(msg1) + Len(msg2)
    IN  IF length = 0 THEN One
        ELSE Frac(2 * matching_size(msg1, msg2, 0, Len(msg1), 0, Len(msg2)), length)

(***************************************************************************)
(* normalize_error_location                                                *)
(***************************************************************************)
normalize_error_location(diagnostic, path) ==
    LET location == Get(diagnostic, "location", Dict(EmptyDict))
        span == Get(diagnostic, "span", Dict(EmptyDict))
    IN  IF IsDict(location)
        THEN <<path, Get(location.fields, "line", 0), Get(location.fields, "column", 0)>>
        ELSE IF IsDict(span)
        THEN <<path, 1, Get(span.fields, "start", 0)>>
        ELSE <<path, 1, 0>>

(***************************************************************************)
(* Messages and diagnostics of the model                                   *)
(***************************************************************************)
S_empty == <<>>

S_bad_A == <<"B","a","d"," ","A",".","y","m","l">>

S_bad_b == <<"b","a","d"," "," ","b",".","y","a","m","l">>

S_bad_as == <<"b","a","d"," ","a",".","y","m","l","s">>

S_xyz == <<"x","y","z">>

Messages == {S_empty, S_bad_A, S_bad_b, S_bad_as, S_xyz}

\* {}
D_none == EmptyDict

\* {"message": "", "span": {"start": 3, "end": 5}}
D_span == [message |-> Str(S_empty), span |-> Dict([start |-> 3, end |-> 5])]

\* {"message": "Bad A.yml", "location": {"line": 1, "column": 2}}
D_bad1 == [message |-> Str(S_bad_A), location |-> Dict([line |-> 1, column |-> 2])]

\* {"message": "bad  b.yaml", "location": {"line": 3}}
D_bad3 == [message |-> Str(S_bad_b), location |-> Dict([line |-> 3])]

\* {"message": "Bad A.yml", "location": {"line": 6, "column": 2}}
D_bad6 == [message |-> Str(S_bad_A), location |-> Dict([line |-> 6, column |-> 2])]

\* {"message": "bad a.ymls", "location": {"line": 2, "column": 0}}
D_bads2 == [message |-> Str(S_bad_as), location |-> Dict([line |-> 2, column |-> 0])]

\* {"message": "xyz", "location": {"line": 2, "column": 0}}
D_xyz2 == [message |-> Str(S_xyz), location |-> Dict([line |-> 2, column |-> 0])]

Pool == {D_none, D_span, D_bad1, D_bad3, D_bad6, D_bads2, D_xyz2}

\* longest list handed to match_errors
MaxLen == 2

RECURSIVE SeqsOfLen(_, _)
SeqsOfLen(S, n) ==
    IF n = 0 THEN {<<>>}
    ELSE {Append(q, x) : q \in SeqsOfLen(S, n - 1), x \in S}

SeqsUpTo(S, n) == UNION {SeqsOfLen(S, k) : k \in 0..n}

\* the default of similarity_threshold, 0.7 = ThresholdNum / ThresholdDen
ThresholdNum == 7

ThresholdDen == 10

DefaultThreshold == Frac(ThresholdNum, ThresholdDen)

Thresholds == {Zero, DefaultThreshold, One}

\* the line tolerance of the location gate
LineTolerance == 2

(***************************************************************************)
(* match_errors                                                            *)
(*                                                                         *)
(* The lists the function builds hold references to the dicts of errors1   *)
(* and errors2. A reference is modelled as the position of the dict in its *)
(* list (from 1, where Python's enumerate counts from 0; best_idx = 0      *)
(* stands for Python's -1 with best_match = None).                         *)
(***************************************************************************)
Abs(n) == IF n < 0 THEN -n ELSE n

\* The normalized form of every message of the model and the similarity of
\* every two of them, computed once (both functions are pure).
NormalizedMessage == [m \in Messages |-> normalize_error_message(m)]

Similarity ==
    [m1 \in {NormalizedMessage[m] : m \in Messages}, m2 \in {NormalizedMessage[m] : m \in Messages}
        |-> similarity_score(m1, m2)]

\* normalize_error_message(err.get('message', ''))
MessageOf(err) == NormalizedMessage[Get(err, "message", Str(S_empty)).chars]

\* similarity_score(msg1, msg2) of the normalized messages of err1 and err2
MsgScore(err1, err2) == Similarity[MessageOf(err1), MessageOf(err2)]

\* LocationMatch without the line test
LocationMatchFileOnly(loc1, loc2) == loc1[1] = loc2[1]

\* location_match = loc1[0] == loc2[0] and abs(loc1[1] - loc2[1]) <= 2
LocationMatch(loc1, loc2) ==
    loc1[1] = loc2[1] /\ Abs(loc1[2] - loc2[2]) <= LineTolerance

\* if location_match and msg_score > best_score
\* Improves with a tie replacing the current best (last seen wins)
ImprovesOnTie(location_match, msg_score, best_score) ==
    location_match /\ FracGe(msg_score, best_score) /\ FracGt(msg_score, Zero)

Improves(location_match, msg_score, best_score) ==
    location_match /\ FracGt(msg_score, best_score)

\* The inner loop over errors2 from position idx on, with the best candidate
\* so far: <<best_score, best_idx>> at its end.
RECURSIVE ScanCandidates(_, _, _, _, _, _, _)
ScanCandidates(err1, errs2, matched, path, idx, best_score, best_idx) ==
    IF idx > Len(errs2) THEN <<best_score, best_idx>>
    ELSE IF idx \in matched
    THEN ScanCandidates(err1, errs2, matched, path, idx + 1, best_score, best_idx)
    ELSE LET loc1 == normalize_error_location(err1, path)
             loc2 == normalize_error_location(errs2[idx], path)
             msg_score == MsgScore(err1, errs2[idx])
         IN  IF Improves(LocationMatch(loc1, loc2), msg_score, best_score)
             THEN ScanCandidates(err1, errs2, matched, path, idx + 1, msg_score, idx)
             ELSE ScanCandidates(err1, errs2, matched, path, idx + 1, best_score, best_idx)

\* best_score = 0.0, best_idx = -1 and the scan of errors2
BestCandidate(err1, errs2, matched, path) ==
    ScanCandidates(err1, errs2, matched, path, 1, Zero, 0)

\* if best_match and best_score >= similarity_threshold
\* (best_match is None, or the dict errors2[best_idx], true iff non-empty)
Accepts(errs2, best_idx, best_score, threshold) ==
    /\ best_idx # 0
    /\ Truthy(errs2[best_idx])
    /\ FracGe(best_score, threshold)

\* The state of the for loop over errors1 before its first iteration.
LoopStart == [next1 |-> 1, matched_indices_2 |-> {}, common |-> <<>>, unique_1 |-> <<>>]

\* Outcome without matched_indices_2.add(best_idx)
OutcomeNoClaim(st, best, errs2, threshold) ==
    IF Accepts(errs2, best[2], best[1], threshold)
    THEN [next1 |-> st.next1 + 1,
          matched_indices_2 |-> st.matched_indices_2,
          common |-> Append(st.common, [tool1 |-> st.next1, tool2 |-> best[2],
                                        similarity |-> best[1]]),
          unique_1 |-> st.unique_1]
    ELSE [next1 |-> st.next1 + 1,
          matched_indices_2 |-> st.matched_indices_2,
          common |-> st.common,
          unique_1 |-> Append(st.unique_1, st.next1)]

\* The end of one iteration of "for err1 in errors1" on the loop state st,
\* with best = <<best_score, best_idx>>: the match is recorded, or err1 is
\* unique.
Outcome(st, best, errs2, threshold) ==
    IF Accepts(errs2, best[2], best[1], threshold)
    THEN [next1 |-> st.next1 + 1,
          matched_indices_2 |-> st.matched_indices_2 \cup {best[2]},
          common |-> Append(st.common, [tool1 |-> st.next1, tool2 |-> best[2],
                                        similarity |-> best[1]]),
          unique_1 |-> st.unique_1]
    ELSE [next1 |-> st.next1 + 1,
          matched_indices_2 |-> st.matched_indices_2,
          common |-> st.common,
          unique_1 |-> Append(st.unique_1, st.next1)]

\* One iteration of "for err1 in errors1", on the loop state st.
MatchIteration(st, errs1, errs2, path, threshold) ==
    Outcome(st, BestCandidate(errs1[st.next1], errs2, st.matched_indices_2, path),
            errs2, threshold)

\* the canonical locations one iteration of the outer loop computes
LocationsOfStep(err1, errs2, matched, path) ==
    {normalize_error_location(err1, path)}
    \cup {normalize_error_location(errs2[j], path) : j \in (DOMAIN errs2) \ matched}

\* Unmatched with the list built back to front
RECURSIVE UnmatchedReversed(_, _, _)
UnmatchedReversed(errs2, matched, idx) ==
    IF idx > Len(errs2) THEN <<>>
    ELSE IF idx \in matched THEN UnmatchedReversed(errs2, matched, idx + 1)
    ELSE UnmatchedReversed(errs2, matched, idx + 1) \o <<idx>>

\* [err2 for idx, err2 in enumerate(errors2) if idx not in matched_indices_2]
RECURSIVE Unmatched(_, _, _)
Unmatched(errs2, matched, idx) ==
    IF idx > Len(errs2) THEN <<>>
    ELSE IF idx \in matched THEN Unmatched(errs2, matched, idx + 1)
    ELSE <<idx>> \o Unmatched(errs2, matched, idx + 1)

\* the whole loop, from loop state st
RECURSIVE MatchLoop(_, _, _, _, _)
MatchLoop(st, errs1, errs2, path, threshold) ==
    IF st.next1 > Len(errs1) THEN st
    ELSE MatchLoop(MatchIteration(st, errs1, errs2, path, threshold),
                   errs1, errs2, path, threshold)

\* match_errors as a function: <<common, unique_1, unique_2>>
match_errors(errs1, errs2, path, threshold) ==
    LET st == MatchLoop(LoopStart, errs1, errs2, path, threshold)
    IN  <<st.common, st.unique_1, Unmatched(errs2, st.matched_indices_2, 1)>>

(***************************************************************************)
(* State                                                                   *)
(***************************************************************************)
VARIABLES
    \* a call of match_errors
    errors1,              \* argument
    errors2,              \* argument
    file_path,            \* argument
    similarity_threshold, \* argument
    pc,                   \* "loop": in the for loop over errors1; "done": returned
    next1,                \* position in errors1 of the next err1
    matched_indices_2,    \* positions of errors2 already claimed
    common,               \* sequence of [tool1, tool2, similarity]
    unique_1,             \* sequence of positions in errors1
    unique_2,             \* sequence of positions in errors2
    locs,                 \* every canonical location computed so far
    \* a call of normalize_error_location
    loc_diag,             \* argument
    loc_path,             \* argument
    loc_result,           \* <<>> before the return, then the tuple returned
    \* a run of the script
    argv_n,               \* len(sys.argv)
    fs,                   \* the results directory
    run_pc,               \* "main", "load", "files", "summary", "exit"
    tool_results,         \* tool -> (file path -> result record)
    tool_stats,           \* tool -> running totals
    tool_errors_seen,     \* every <<tool, path, errors>> counted and matched
    file_comparisons,     \* sequence of per-file records
    coverage_analysis,    \* competitor -> [total_errors, truss_found, coverage]
    stderr,               \* what was printed to stderr
    run_idx,              \* position in the loop run_pc names
    output,               \* "none", or where the document went: "stdout", "file"
    exit_status           \* -1 while running, then the exit status

matchVars == <<errors1, errors2, file_path, similarity_threshold, pc, next1,
               matched_indices_2, common, unique_1, unique_2, locs>>

locVars == <<loc_diag, loc_path, loc_result>>

runVars == <<argv_n, fs, run_pc, run_idx, tool_results, tool_stats, tool_errors_seen,
             file_comparisons, coverage_analysis, stderr, output, exit_status>>

vars == <<matchVars, locVars, runVars>>

(***************************************************************************)
(* Specification of a call of match_errors                                 *)
(***************************************************************************)
MatchIdle ==
    /\ errors1 = <<>>
    /\ errors2 = <<>>
    /\ file_path = ""
    /\ similarity_threshold = DefaultThreshold
    /\ pc = "idle"
    /\ next1 = 1
    /\ matched_indices_2 = {}
    /\ common = <<>>
    /\ unique_1 = <<>>
    /\ unique_2 = <<>>
    /\ locs = {}

LocIdle ==
    /\ loc_diag = EmptyDict
    /\ loc_path = ""
    /\ loc_result = <<>>

RunIdle ==
    /\ argv_n = 0
    /\ fs = [exists |-> FALSE]
    /\ run_pc = "idle"
    /\ run_idx = 1
    /\ tool_results = <<>>
    /\ tool_stats = <<>>
    /\ tool_errors_seen = {}
    /\ file_comparisons = <<>>
    /\ coverage_analysis = <<>>
    /\ stderr = <<>>
    /\ output = "none"
    /\ exit_status = -1

MatchInit ==
    /\ errors1 \in SeqsUpTo(Pool, MaxLen)
    /\ errors2 \in SeqsUpTo(Pool, MaxLen)
    /\ file_path = "a.yml"
    /\ similarity_threshold \in Thresholds
    /\ pc = "loop"
    /\ next1 = 1
    /\ matched_indices_2 = {}
    /\ common = <<>>
    /\ unique_1 = <<>>
    /\ unique_2 = <<>>
    /\ locs = {}

\* one iteration of "for err1 in errors1"
MatchStep ==
    /\ pc = "loop"
    /\ next1 <= Len(errors1)
    /\ LET st == MatchIteration([next1 |-> next1, matched_indices_2 |-> matched_indices_2,
                                 common |-> common, unique_1 |-> unique_1],
                                errors1, errors2, file_path, similarity_threshold)
       IN  /\ next1' = st.next1
           /\ matched_indices_2' = st.matched_indices_2
           /\ common' = st.common
           /\ unique_1' = st.unique_1
    /\ locs' = locs \cup LocationsOfStep(errors1[next1], errors2, matched_indices_2, file_path)
    /\ UNCHANGED <<errors1, errors2, file_path, similarity_threshold, pc, unique_2>>
    /\ UNCHANGED <<locVars, runVars>>

\* after the loop: unique_2 and the return
MatchReturn ==
    /\ pc = "loop"
    /\ next1 > Len(errors1)
    /\ unique_2' = Unmatched(errors2, matched_indices_2, 1)
    /\ pc' = "done"
    /\ UNCHANGED <<errors1, errors2, file_path, similarity_threshold, next1,
                   matched_indices_2, common, unique_1, locs>>
    /\ UNCHANGED <<locVars, runVars>>

Init == MatchInit /\ LocIdle /\ RunIdle

Next == MatchStep \/ MatchReturn

Spec == Init /\ [][Next]_vars

(***************************************************************************)
(* Specification of a call of normalize_error_location                     *)
(***************************************************************************)
\* largest line, column or offset a diagnostic of this specification carries
MaxCoord == 2

\* the dicts with some of the keys of the records of R
Partial(R) == UNION {{[k \in K |-> r[k]] : K \in SUBSET (DOMAIN r)} : r \in R}

LocationValues ==
    {None} \cup {Dict(f) : f \in Partial([line : 1..MaxCoord, column : 0..MaxCoord])}

SpanValues ==
    {None} \cup {Dict(f) : f \in Partial([start : 0..MaxCoord])}

LocDiagnostics == Partial([location : LocationValues, span : SpanValues])

LocInit ==
    /\ loc_diag \in LocDiagnostics
    /\ loc_path \in {"a.yml", "b.yml"}
    /\ loc_result = <<>>

LocCall ==
    /\ loc_result = <<>>
    /\ loc_result' = normalize_error_location(loc_diag, loc_path)
    /\ UNCHANGED <<loc_diag, loc_path, matchVars, runVars>>

InitLoc == MatchIdle /\ LocInit /\ RunIdle

NextLoc == LocCall

SpecLoc == InitLoc /\ [][NextLoc]_vars

(***************************************************************************)
(* load_tool_results                                                       *)
(*                                                                         *)
(* The results directory is [exists |-> FALSE], or [exists |-> TRUE,       *)
(* tools |-> tool -> subdirectory]; a subdirectory is [exists |-> FALSE]   *)
(* or [exists |-> TRUE, files |-> its *.json files in glob order]. A file  *)
(* is blank, invalid JSON, a JSON scalar, one result object or an array of *)
(* result objects.                                                         *)
(***************************************************************************)
Tools == <<"truss", "actionlint", "yamllint", "yaml-language-server">>

Competitors == <<"actionlint", "yamllint", "yaml-language-server">>

\* the file paths of the model, in ascending order
FilePaths == <<"a.yml", "b.yml">>

Blank == [kind |-> "blank"]

Invalid == [kind |-> "invalid"]

Scalar == [kind |-> "scalar"]

Obj(d) == [kind |-> "object", data |-> d]

Arr(items) == [kind |-> "array", items |-> items]

\* for item in data: file_path = item.get('file', '');
\*   if file_path and 'error' not in item: results[file_path] = item
RECURSIVE LoadItems(_, _, _)
LoadItems(items, i, results) ==
    IF i > Len(items) THEN results
    ELSE LET item == items[i]
             path == Get(item, "file", "")
         IN  IF path # "" /\ "error" \notin DOMAIN item
             THEN LoadItems(items, i + 1, Put(results, path, item))
             ELSE LoadItems(items, i + 1, results)

\* the loop over tool_dir.glob('*.json'); st = [results, printed]
RECURSIVE LoadFiles(_, _, _, _)
LoadFiles(tool, files, i, st) ==
    IF i > Len(files) THEN st
    ELSE LET f == files[i]
         IN  IF f.kind = "blank" THEN LoadFiles(tool, files, i + 1, st)
             ELSE IF f.kind = "invalid"
             THEN LoadFiles(tool, files, i + 1,
                      [st EXCEPT !.printed = @ \o <<[msg |-> "invalid_json", tool |-> tool, file |-> i],
                                                    [msg |-> "preview", tool |-> tool, file |-> i]>>])
             ELSE IF f.kind = "scalar"
             THEN LoadFiles(tool, files, i + 1,
                      [st EXCEPT !.printed = @ \o <<[msg |-> "failed_to_load", tool |-> tool, file |-> i]>>])
             ELSE IF f.kind = "array"
             THEN LoadFiles(tool, files, i + 1,
                      [st EXCEPT !.results = LoadItems(f.items, 1, @)])
             ELSE LoadFiles(tool, files, i + 1,
                      [st EXCEPT !.results = LoadItems(<<f.data>>, 1, @)])

load_tool_results(dir, tool) ==
    IF ~dir.exists THEN [results |-> EmptyDict, printed |-> <<>>]
    ELSE LoadFiles(tool, dir.files, 1, [results |-> EmptyDict, printed |-> <<>>])

(***************************************************************************)
(* compare_results and the entry point                                     *)
(***************************************************************************)
S_error == <<"e","r","r","o","r">>

\* e.get('severity', 'error').lower() == 'error'
IsError(e) == ToLower(Get(e, "severity", Str(S_error)).chars) = S_error

\* the filter dropped: every diagnostic is kept
FilterErrorsKeepAll(diagnostics) == diagnostics

\* [e for e in errors if e.get('severity', 'error').lower() == 'error']
FilterErrors(diagnostics) == SelectSeq(diagnostics, IsError)

\* all_files
AllFiles == UNION {DOMAIN tool_results[t] : t \in DOMAIN tool_results}

\* sorted(all_files)
SortedFiles == SelectSeq(FilePaths, LAMBDA f : f \in AllFiles)

\* tool_errors of one file
ToolErrors(path) ==
    [t \in Range(Tools) |->
        IF path \in DOMAIN tool_results[t]
        THEN FilterErrors(Get(tool_results[t][path], "diagnostics", <<>>))
        ELSE <<>>]

\* file_comparison['tools'] of one file
FileTools(path, tool_errors) ==
    [t \in Range(Tools) |->
        IF path \in DOMAIN tool_results[t]
        THEN [errors |-> Len(tool_errors[t]),
              duration_ms |-> Get(tool_results[t][path], "duration_ms", 0),
              valid |-> Get(tool_results[t][path], "valid", TRUE)]
        ELSE [errors |-> 0, duration_ms |-> 0, valid |-> TRUE]]

\* tool_stats after the "Update stats" lines of one file
UpdatedStats(stats, path, tool_errors) ==
    [t \in Range(Tools) |->
        IF path \in DOMAIN tool_results[t]
        THEN [stats[t] EXCEPT
                !.errors_found = @ + Len(tool_errors[t]),
                !.files_analyzed = @ + 1,
                !.total_time_ms = @ + Get(tool_results[t][path], "duration_ms", 0)]
        ELSE stats[t]]

\* one entry of comparison_data, from the result m of match_errors
ComparisonEntry(m, comp_errors) ==
    [errors_in_common |-> Len(m[1]),
     unique_to_truss |-> Len(m[2]),
     unique_to_competitor |-> Len(m[3]),
     truss_coverage |-> IF comp_errors # <<>>
                        THEN Frac(Len(m[1]), Len(comp_errors)) ELSE One]

\* comparison_data of one file
ComparisonData(path, tool_errors) ==
    [c \in Range(Competitors) |->
        ComparisonEntry(match_errors(tool_errors["truss"], tool_errors[c], path, DefaultThreshold),
                        tool_errors[c])]

\* sum(fc['comparison'].get(competitor, {}).get('errors_in_common', 0) for fc in ...)
RECURSIVE TotalCommon(_, _, _)
TotalCommon(comparisons, competitor, k) ==
    IF k > Len(comparisons) THEN 0
    ELSE (IF competitor \in DOMAIN comparisons[k].comparison
          THEN comparisons[k].comparison[competitor].errors_in_common ELSE 0)
         + TotalCommon(comparisons, competitor, k + 1)

\* the coverage with 0.0 for a competitor without errors
GlobalCoverageZero(total_common, total_comp_errors) ==
    IF total_comp_errors > 0 THEN Frac(total_common, total_comp_errors) ELSE Zero

\* total_common / total_comp_errors if total_comp_errors > 0 else 1.0
GlobalCoverage(total_common, total_comp_errors) ==
    IF total_comp_errors > 0 THEN Frac(total_common, total_comp_errors) ELSE One

\* the "Overall coverage analysis" loop
CoverageAnalysis(stats, comparisons) ==
    [c \in Range(Competitors) |->
        LET total_comp_errors == stats[c].errors_found
            total_common == TotalCommon(comparisons, c, 1)
        IN  [total_errors |-> total_comp_errors,
             truss_found |-> total_common,
             coverage |-> GlobalCoverage(total_common, total_comp_errors)]]

\* the "Calculate summary statistics" loop
WithAverages(stats) ==
    [t \in Range(Tools) |->
        IF stats[t].files_analyzed > 0
        THEN [stats[t] EXCEPT !.avg_time_ms = Frac(stats[t].total_time_ms, stats[t].files_analyzed)]
        ELSE stats[t]]

\* the line printed for every tool, whatever was loaded
LoadMessageAlwaysLoaded(tool, result_count) ==
    [msg |-> "loaded", tool |-> tool, count |-> result_count]

\* "Loaded n results for tool", or "Warning: No valid results found for tool"
LoadMessage(tool, result_count) ==
    IF result_count > 0
    THEN [msg |-> "loaded", tool |-> tool, count |-> result_count]
    ELSE [msg |-> "no_valid_results", tool |-> tool]

\* __main__ up to the first loop of compare_results: the usage test, and the
\* test of the results directory, whose ValueError __main__ turns into exit 1
RunMain ==
    /\ run_pc = "main"
    /\ IF argv_n < 2
       THEN /\ stderr' = Append(stderr, [msg |-> "usage"])
            /\ exit_status' = 1
            /\ run_pc' = "exit"
       ELSE IF ~fs.exists
       THEN /\ stderr' = Append(stderr, [msg |-> "error_results_directory_not_found"])
            /\ exit_status' = 1
            /\ run_pc' = "exit"
       ELSE /\ run_pc' = "load"
            /\ UNCHANGED <<stderr, exit_status>>
    /\ UNCHANGED <<argv_n, fs, run_idx, tool_results, tool_stats, tool_errors_seen,
                   file_comparisons, coverage_analysis, output>>
    /\ UNCHANGED <<matchVars, locVars>>

\* one iteration of "for tool in tools" of the loading loop
RunLoad ==
    /\ run_pc = "load"
    /\ run_idx <= Len(Tools)
    /\ LET tool == Tools[run_idx]
           loaded == load_tool_results(fs.tools[tool], tool)
           result_count == Cardinality(DOMAIN loaded.results)
       IN  /\ tool_results' = Put(tool_results, tool, loaded.results)
           /\ stderr' = stderr \o loaded.printed \o <<LoadMessage(tool, result_count)>>
    /\ run_idx' = run_idx + 1
    /\ UNCHANGED <<argv_n, fs, run_pc, tool_stats, tool_errors_seen, file_comparisons,
                   coverage_analysis, output, exit_status>>
    /\ UNCHANGED <<matchVars, locVars>>

\* between the loops: all_files, file_comparisons = [], tool_stats zeroed
RunPrepare ==
    /\ run_pc = "load"
    /\ run_idx > Len(Tools)
    /\ tool_stats' = [t \in Range(Tools) |->
                        [errors_found |-> 0, files_analyzed |-> 0,
                         total_time_ms |-> 0, avg_time_ms |-> Zero]]
    /\ file_comparisons' = <<>>
    /\ run_pc' = "files"
    /\ run_idx' = 1
    /\ UNCHANGED <<argv_n, fs, tool_results, tool_errors_seen, coverage_analysis,
                   stderr, output, exit_status>>
    /\ UNCHANGED <<matchVars, locVars>>

\* one iteration of "for file_path in sorted(all_files)"
RunFile ==
    /\ run_pc = "files"
    /\ run_idx <= Len(SortedFiles)
    /\ LET path == SortedFiles[run_idx]
           tool_errors == ToolErrors(path)
       IN  /\ tool_stats' = UpdatedStats(tool_stats, path, tool_errors)
           /\ file_comparisons' = Append(file_comparisons,
                 [path |-> path,
                  tools |-> FileTools(path, tool_errors),
                  comparison |-> ComparisonData(path, tool_errors)])
           /\ tool_errors_seen' = tool_errors_seen \cup
                 {<<t, path, tool_errors[t]>> : t \in Range(Tools)}
    /\ run_idx' = run_idx + 1
    /\ UNCHANGED <<argv_n, fs, run_pc, tool_results, coverage_analysis, stderr,
                   output, exit_status>>
    /\ UNCHANGED <<matchVars, locVars>>

\* after the loops: averages, coverage analysis, the document and the return
RunSummary ==
    /\ run_pc = "files"
    /\ run_idx > Len(SortedFiles)
    /\ tool_stats' = WithAverages(tool_stats)
    /\ coverage_analysis' = CoverageAnalysis(tool_stats, file_comparisons)
    /\ IF argv_n > 2
       THEN /\ output' = "file"
            /\ stderr' = Append(stderr, [msg |-> "written"])
       ELSE /\ output' = "stdout"
            /\ stderr' = stderr
    /\ exit_status' = 0
    /\ run_pc' = "exit"
    /\ UNCHANGED <<argv_n, fs, run_idx, tool_results, tool_errors_seen, file_comparisons>>
    /\ UNCHANGED <<matchVars, locVars>>

(***************************************************************************)
(* Specification of a run of the script                                    *)
(***************************************************************************)
S_Error == <<"E","r","r","o","r">>

S_warning == <<"w","a","r","n","i","n","g">>

\* {"message": "Bad A.yml", "severity": "Error", "location": {"line": 1, "column": 2}}
E_Error == [message |-> Str(S_bad_A), severity |-> Str(S_Error),
            location |-> Dict([line |-> 1, column |-> 2])]

\* {"message": "Bad A.yml", "severity": "warning", "location": {"line": 1, "column": 2}}
E_warning == [message |-> Str(S_bad_A), severity |-> Str(S_warning),
              location |-> Dict([line |-> 1, column |-> 2])]

\* {"message": "bad  b.yaml", "severity": "error", "location": {"line": 3}}
E_error == [message |-> Str(S_bad_b), severity |-> Str(S_error),
            location |-> Dict([line |-> 3])]

\* a diagnostic without a severity
E_none == D_xyz2

RunPool == {E_Error, E_warning, E_none}

\* longest diagnostics list of a result record
MaxDiags == 2

DiagLists == SeqsUpTo(RunPool, MaxDiags)

Result(path, diagnostics, duration_ms) ==
    [file |-> path, diagnostics |-> diagnostics, duration_ms |-> duration_ms,
     valid |-> (diagnostics = <<>>)]

NoDir == [exists |-> FALSE]

Dir(files) == [exists |-> TRUE, files |-> files]

TrussDirs ==
    {NoDir} \cup
    {Dir(<<Obj(Result("a.yml", l, 2))>> \o more) :
        l \in DiagLists, more \in {<<>>, <<Obj(Result("b.yml", <<E_error>>, 4))>>}}

ActionlintDirs ==
    {NoDir} \cup
    {Dir(<<Arr(<<Result("a.yml", l, 3)>> \o more)>>) :
        l \in DiagLists, more \in {<<>>, <<Result("b.yml", <<E_error, E_warning>>, 5)>>}}

YamllintDirs ==
    {NoDir,
     Dir(<<Blank, Invalid, Scalar,
           Obj([file |-> "a.yml", error |-> "tool not found"]),
           Obj([file |-> "", diagnostics |-> <<E_error>>]),
           Obj([file |-> "b.yml", diagnostics |-> <<E_none, E_error>>])>>)}

YamlLsDirs == {NoDir, Dir(<<>>)}

ResultsDirs ==
    {[exists |-> TRUE,
      tools |-> [t \in Range(Tools) |->
                    IF t = "truss" THEN d1
                    ELSE IF t = "actionlint" THEN d2
                    ELSE IF t = "yamllint" THEN d3 ELSE d4]] :
        d1 \in TrussDirs, d2 \in ActionlintDirs, d3 \in YamllintDirs, d4 \in YamlLsDirs}

\* sys.argv holds the script alone, the results directory, or also the
\* output file; without a results directory, or with one that does not
\* exist, nothing else is read
RunInit ==
    /\ argv_n \in 1..3
    /\ fs \in IF argv_n = 1 THEN {NoDir} ELSE {NoDir} \cup ResultsDirs
    /\ run_pc = "main"
    /\ run_idx = 1
    /\ tool_results = EmptyDict
    /\ tool_stats = EmptyDict
    /\ tool_errors_seen = {}
    /\ file_comparisons = <<>>
    /\ coverage_analysis = EmptyDict
    /\ stderr = <<>>
    /\ output = "none"
    /\ exit_status = -1

InitRun == MatchIdle /\ LocIdle /\ RunInit

NextRun == RunMain \/ RunLoad \/ RunPrepare \/ RunFile \/ RunSummary

SpecRun == InitRun /\ [][NextRun]_vars

(***************************************************************************)
(* Properties of match_errors (under Spec)                                 *)
(***************************************************************************)
Tool1s == {c.tool1 : c \in Range(common)}

Tool2s == {c.tool2 : c \in Range(common)}

LineOf(err) == normalize_error_location(err, file_path)[2]

\* b = errors2[j] passes the location gate for a = errors1[i]
Eligible(i, j) ==
    LocationMatch(normalize_error_location(errors1[i], file_path),
                  normalize_error_location(errors2[j], file_path))

\* C1: the result is an exact partition. Every position of errors1 handled so
\* far is the tool1 of exactly one entry of common or occurs exactly once in
\* unique_1, never both; no position of errors2 is the tool2 of two entries;
\* and at the return every position of errors2 is the tool2 of exactly one
\* entry or occurs exactly once in unique_2, never both, so that
\* |common| + |unique_1| = |errors1| and |common| + |unique_2| = |errors2|.
C1_Partition ==
    /\ Injective([k \in DOMAIN common |-> common[k].tool1])
    /\ Injective([k \in DOMAIN common |-> common[k].tool2])
    /\ Injective(unique_1)
    /\ Tool1s \cap Range(unique_1) = {}
    /\ Tool1s \cup Range(unique_1) = 1..(next1 - 1)
    /\ Tool2s \subseteq DOMAIN errors2
    /\ pc = "done" =>
          /\ Tool1s \cup Range(unique_1) = DOMAIN errors1
          /\ Injective(unique_2)
          /\ Tool2s \cap Range(unique_2) = {}
          /\ Tool2s \cup Range(unique_2) = DOMAIN errors2
          /\ Len(common) + Len(unique_1) = Len(errors1)
          /\ Len(common) + Len(unique_2) = Len(errors2)

C1_Witness ==
    /\ pc = "done"
    /\ Len(common) >= 1
    /\ Len(unique_1) >= 1
    /\ Len(unique_2) >= 1

\* C2: no entry of common pairs two diagnostics whose canonical lines differ
\* by more than 2.
C2_LocationGate ==
    \A c \in Range(common) :
        Abs(LineOf(errors1[c.tool1]) - LineOf(errors2[c.tool2])) <= 2

\* two diagnostics with the same normalized message, more than 2 lines apart,
\* both left unmatched at threshold 0
C2_Witness ==
    /\ pc = "done"
    /\ similarity_threshold = Zero
    /\ \E i \in Range(unique_1), j \in Range(unique_2) :
          /\ MessageOf(errors1[i]) = MessageOf(errors2[j])
          /\ MessageOf(errors1[i]) # <<>>
          /\ Abs(LineOf(errors1[i]) - LineOf(errors2[j])) > 2

\* the positions of errors2 claimed before errors1[i] was handled
ClaimedBefore(i) == {c.tool2 : c \in {d \in Range(common) : d.tool1 < i}}

\* the candidates errors1[i] could still be paired with
Candidates(i) == {j \in (DOMAIN errors2) \ ClaimedBefore(i) : Eligible(i, j)}

\* C3: the threshold rule. For every errors1[i] handled, a match is recorded
\* iff some unclaimed candidate is location-eligible and the highest similarity
\* among those candidates is >= the threshold; and no recorded match has a
\* similarity below the threshold.
C3_ThresholdRule ==
    \A i \in 1..(next1 - 1) :
        /\ (i \in Tool1s) <=>
              /\ Candidates(i) # {}
              /\ \E j \in Candidates(i) :
                    /\ \A j2 \in Candidates(i) :
                          FracGe(MsgScore(errors1[i], errors2[j]), MsgScore(errors1[i], errors2[j2]))
                    /\ FracGe(MsgScore(errors1[i], errors2[j]), similarity_threshold)
        /\ \A c \in Range(common) : FracGe(c.similarity, similarity_threshold)

\* C4: at the return, two diagnostics with identical normalized messages and
\* lines at most 2 apart, with no other diagnostic location-eligible for either
\* of them, are paired in common with similarity 1.0.
C4_IdenticalAlwaysMatch ==
    pc = "done" =>
        \A i \in DOMAIN errors1, j \in DOMAIN errors2 :
            ( /\ MessageOf(errors1[i]) = MessageOf(errors2[j])
              /\ Eligible(i, j)
              /\ \A i2 \in (DOMAIN errors1) \ {i} : ~Eligible(i2, j)
              /\ \A j2 \in (DOMAIN errors2) \ {j} : ~Eligible(i, j2) )
            => \E c \in Range(common) :
                  c.tool1 = i /\ c.tool2 = j /\ FracEq(c.similarity, One)

\* C8: every canonical location computed during the call has line >= 1 and
\* column >= 0.
C8_CanonicalLocation ==
    \A l \in locs : l[2] >= 1 /\ l[3] >= 0

\* the diagnostics the positions of q refer to
Deref(q, errs) == [k \in 1..Len(q) |-> errs[q[k]]]

\* C10: match_errors(A, []) returns ([], A, []) and match_errors([], B) returns
\* ([], [], B), the non-empty list with the same elements in the same order.
C10_EmptyInputs ==
    pc = "done" =>
        /\ errors2 = <<>> =>
              common = <<>> /\ Deref(unique_1, errors1) = errors1 /\ unique_2 = <<>>
        /\ errors1 = <<>> =>
              common = <<>> /\ unique_1 = <<>> /\ Deref(unique_2, errors2) = errors2

C10_Witness ==
    /\ pc = "done"
    /\ errors1 = <<>>
    /\ Len(errors2) >= 2
    /\ errors2[1] # errors2[2]

\* the similarity of errors1[i] to errors2[j]
ScoreOf(i, j) == MsgScore(errors1[i], errors2[j])

\* C11: greedy selection order. errors1 is handled in list order (the entries
\* of common and of unique_1 are in increasing position of errors1, all of
\* them already handled); the candidate paired with errors1[i] is the
\* lowest-position element of errors2 among those not claimed by an earlier
\* element of errors1, location-eligible for errors1[i] and of maximum
\* similarity to it among such candidates; and a candidate claimed by an
\* earlier element is never the tool2 of a later entry.
C11_GreedyOrder ==
    /\ \A k, l \in DOMAIN common : k < l => common[k].tool1 < common[l].tool1
    /\ \A k, l \in DOMAIN unique_1 : k < l => unique_1[k] < unique_1[l]
    /\ \A c \in Range(common) :
          /\ c.tool1 < next1
          /\ c.tool2 \in Candidates(c.tool1)
          /\ c.similarity = ScoreOf(c.tool1, c.tool2)
          /\ \A j \in Candidates(c.tool1) :
                /\ FracGe(ScoreOf(c.tool1, c.tool2), ScoreOf(c.tool1, j))
                /\ FracEq(ScoreOf(c.tool1, j), ScoreOf(c.tool1, c.tool2)) => c.tool2 <= j
    /\ \A c, d \in Range(common) : c.tool1 < d.tool1 => c.tool2 # d.tool2

\* the first element of errors1 had two candidates of equal, maximum
\* similarity and took the first; the second element is closer to that
\* claimed candidate than the first element was, and was paired with the
\* other one
C11_Witness ==
    /\ pc = "done"
    /\ Len(common) = 2
    /\ common[1].tool1 = 1 /\ common[1].tool2 = 1
    /\ common[2].tool1 = 2 /\ common[2].tool2 = 2
    /\ 2 \in Candidates(1)
    /\ FracEq(ScoreOf(1, 1), ScoreOf(1, 2))
    /\ Eligible(2, 1)
    /\ FracGt(ScoreOf(2, 1), ScoreOf(1, 1))

(***************************************************************************)
(* Properties of normalize_error_location (under SpecLoc)                  *)
(***************************************************************************)
HasDict(d, key) == key \in DOMAIN d /\ IsDict(d[key])

\* C7: the three cases of the location normalization, on the returned tuple:
\* a location object gives its line and column (0 when missing); otherwise a
\* span object gives line 1 and its start (0 when missing); neither gives
\* (file_path, 1, 0).
C7_LocationCases ==
    loc_result # <<>> =>
        IF HasDict(loc_diag, "location")
        THEN loc_result = <<loc_path, Get(loc_diag.location.fields, "line", 0),
                            Get(loc_diag.location.fields, "column", 0)>>
        ELSE IF HasDict(loc_diag, "span")
        THEN loc_result = <<loc_path, 1, Get(loc_diag.span.fields, "start", 0)>>
        ELSE loc_result = <<loc_path, 1, 0>>

(***************************************************************************)
(* Properties of a run of the script (under SpecRun)                       *)
(***************************************************************************)
RECURSIVE SumSeq(_)
SumSeq(q) == IF q = <<>> THEN 0 ELSE Head(q) + SumSeq(Tail(q))

\* the sum over the file records of errors_in_common for competitor c
CommonInRecords(c) ==
    SumSeq([k \in 1..Len(file_comparisons) |-> file_comparisons[k].comparison[c].errors_in_common])

\* the sum over the file records of the error count of tool t
ErrorsInRecords(t) ==
    SumSeq([k \in 1..Len(file_comparisons) |-> file_comparisons[k].tools[t].errors])

\* C5: after compare_results, for every competitor total_errors is the sum
\* over all files of its error count, truss_found is the sum over all file
\* records of errors_in_common, and coverage is their quotient, or 1.0 when
\* the competitor found no error at all.
C5_GlobalCoverage ==
    exit_status = 0 =>
        \A c \in Range(Competitors) :
            /\ coverage_analysis[c].total_errors = ErrorsInRecords(c)
            /\ coverage_analysis[c].truss_found = CommonInRecords(c)
            /\ IF ErrorsInRecords(c) > 0
               THEN /\ coverage_analysis[c].coverage[2] = ErrorsInRecords(c)
                    /\ FracEq(coverage_analysis[c].coverage,
                              Frac(CommonInRecords(c), ErrorsInRecords(c)))
               ELSE coverage_analysis[c].coverage = One

\* one competitor partly covered over two files, another one without errors
C5_Witness ==
    /\ exit_status = 0
    /\ Len(file_comparisons) = 2
    /\ \E c \in Range(Competitors) :
          /\ CommonInRecords(c) > 0
          /\ CommonInRecords(c) < ErrorsInRecords(c)
          /\ file_comparisons[1].comparison[c].errors_in_common > 0
          /\ file_comparisons[2].comparison[c].errors_in_common > 0
    /\ \E c \in Range(Competitors) : coverage_analysis[c].total_errors = 0

\* the diagnostics list the loader holds for tool t and file path
RawDiagnostics(t, path) ==
    IF path \in DOMAIN tool_results[t]
    THEN Get(tool_results[t][path], "diagnostics", <<>>)
    ELSE <<>>

HasErrorSeverity(e) ==
    "severity" \in DOMAIN e /\ ToLower(e.severity.chars) = S_error

\* C6 as stated: every diagnostic counted or handed to match_errors has a
\* severity field equal to "error", ignoring case.
C6_SeverityField ==
    \A x \in tool_errors_seen : \A e \in Range(x[3]) : HasErrorSeverity(e)

ErrorOrNoSeverity(e) == "severity" \notin DOMAIN e \/ HasErrorSeverity(e)

\* C6, amended: every diagnostic counted or handed to match_errors has a
\* severity field equal to "error" ignoring case, or no severity field at all;
\* the list counted and matched for a tool and a file is the tool's list for
\* that file without the diagnostics of any other severity, the per-file
\* 'errors' is its length, and errors_found is the sum of those lengths.
C6_SeverityFilter ==
    /\ \A x \in tool_errors_seen :
          /\ \A e \in Range(x[3]) : ErrorOrNoSeverity(e)
          /\ x[3] = SelectSeq(RawDiagnostics(x[1], x[2]), ErrorOrNoSeverity)
    /\ \A k \in DOMAIN file_comparisons : \A t \in Range(Tools) :
          /\ <<t, file_comparisons[k].path,
               SelectSeq(RawDiagnostics(t, file_comparisons[k].path), ErrorOrNoSeverity)>>
                \in tool_errors_seen
          /\ file_comparisons[k].tools[t].errors =
                Len(SelectSeq(RawDiagnostics(t, file_comparisons[k].path), ErrorOrNoSeverity))
          /\ t # "truss" =>
                file_comparisons[k].comparison[t].errors_in_common
                + file_comparisons[k].comparison[t].unique_to_competitor
                = file_comparisons[k].tools[t].errors
    /\ run_pc \in {"files", "exit"} /\ tool_stats # EmptyDict =>
          \A t \in Range(Tools) : tool_stats[t].errors_found = ErrorsInRecords(t)

\* a list with a warning dropped and a diagnostic without severity kept, and
\* one with a warning dropped and an "Error" kept
C6_Witness ==
    /\ exit_status = 0
    /\ \E x \in tool_errors_seen :
          /\ \E e \in Range(x[3]) : "severity" \notin DOMAIN e
          /\ \E e \in Range(RawDiagnostics(x[1], x[2])) : e \notin Range(x[3])
    /\ \E x \in tool_errors_seen :
          /\ \E e \in Range(x[3]) : HasErrorSeverity(e) /\ e.severity.chars # S_error
          /\ \E e \in Range(RawDiagnostics(x[1], x[2])) : e \notin Range(x[3])

SomethingAbsent ==
    ~fs.exists \/ \E t \in Range(Tools) : ~fs.tools[t].exists

\* C9 as stated: when the results directory or a tool's subdirectory does not
\* exist, the run still completes with exit status 0 and produces the
\* comparison document.
C9_InputAbsentNotFatal ==
    run_pc = "exit" /\ argv_n >= 2 /\ SomethingAbsent =>
        exit_status = 0 /\ output # "none"

\* C9, amended: when the results directory exists and a tool's subdirectory
\* does not, that tool has zero results, a warning for it is printed, and the
\* run completes with exit status 0 and produces the document; when the
\* results directory itself does not exist, the run prints an error, produces
\* no document and exits with status 1.
C9_SubdirAbsentNotFatal ==
    run_pc = "exit" /\ argv_n >= 2 =>
        IF fs.exists
        THEN /\ exit_status = 0
             /\ output # "none"
             /\ \A t \in Range(Tools) :
                   ~fs.tools[t].exists =>
                      /\ tool_results[t] = EmptyDict
                      /\ [msg |-> "no_valid_results", tool |-> t] \in Range(stderr)
        ELSE /\ exit_status = 1
             /\ output = "none"
             /\ [msg |-> "error_results_directory_not_found"] \in Range(stderr)

\* a run with one subdirectory missing and another one holding results
C9_Witness ==
    /\ run_pc = "exit"
    /\ fs.exists
    /\ \E t \in Range(Tools) : ~fs.tools[t].exists
    /\ \E t \in Range(Tools) : fs.tools[t].exists /\ tool_results[t] # EmptyDict
    /\ exit_status = 0
    /\ output = "file"

====
